---- MODULE Spec2Model ----
(***************************************************************************)
(* The sentence tokenizer of src/lib.rs: SentenceTokenizer::tokenize and   *)
(* its three passes, separate_end_punctuation, parse_integers_and_reals    *)
(* and parse_words_etc.  A string is a sequence of one-character strings;  *)
(* a regular expression is modelled by the set of positions it can reach.  *)
(***************************************************************************)
EXTENDS Integers, Sequences, FiniteSets, TLC

\* Longest input body (characters after the opening) that is enumerated.
MaxLen == 3

----------------------------------------------------------------------------
\* Character classes, one or two representatives each.

\* char::is_whitespace
Whitespace == {" ", "\t"}

\* \d
Digit == {"1"}

\* [A-Za-z]: the letter of the bodies and those of the URL scheme
Letter == {"a", "h", "p", "s", "t"}

\* \w
WordChar == Letter \cup Digit

\* [\.\?\-:!,;]
Marks == {".", "?", "-", ":", "!", ",", ";"}

\* [\w/#\?&=\.]
UrlTail == WordChar \cup {"/", "#", "?", "&", "=", "."}

Alphabet == Whitespace \cup Digit \cup {"a"} \cup Marks \cup {"#", "@", "/"}

\* Openings that bring the long patterns (URL, comma-grouped real) within
\* MaxLen characters.
Openings ==
  { <<>>,
    <<"h", "t", "t", "p", ":", "/", "/", "a", ".">>,
    <<"h", "t", "t", "p", "s", ":", "/", "/", "a", ".">>,
    <<"1", ",">> }

Bodies == UNION { [1..n -> Alphabet] : n \in 0..MaxLen }

Inputs == { o \o b : o \in Openings, b \in Bodies }

----------------------------------------------------------------------------
\* Data model.

Unknown(text) == [kind |-> "Unknown", text |-> text]

TextToken(kind, text) == [kind |-> kind, text |-> text]

PunctuationToken(mark) == [kind |-> "Punctuation", mark |-> mark]

None == [some |-> FALSE]

Some(v) == [some |-> TRUE, val |-> v]

----------------------------------------------------------------------------
\* String primitives.

Min(S) == CHOOSE x \in S : \A y \in S : x <= y

\* str.get(lo..hi), byte offsets (0-based, half-open)
StrGet(s, lo, hi) ==
  IF lo <= hi /\ hi <= Len(s) THEN Some(SubSeq(s, lo + 1, hi)) ELSE None

\* FilterNonEmpty without the test of the length
FilterNonEmpty_Keep(opt) == opt

\* .filter(|s| s.len() > 0)
FilterNonEmpty(opt) ==
  IF opt.some /\ Len(opt.val) > 0 THEN opt ELSE None

\* str.trim()
Trim(s) ==
  LET keep == { p \in 1..Len(s) : s[p] \notin Whitespace }
  IN IF keep = {} THEN <<>>
     ELSE SubSeq(s, Min(keep), CHOOSE p \in keep : \A q \in keep : q <= p)

\* SplitWhitespace splitting on the space character alone
RECURSIVE SplitWhitespace_SpaceOnly(_)
SplitWhitespace_SpaceOnly(s) ==
  LET ws == { p \in 1..Len(s) : s[p] = " " }
  IN IF ws = {} THEN << s >>
     ELSE << SubSeq(s, 1, Min(ws) - 1) >>
            \o SplitWhitespace_SpaceOnly(SubSeq(s, Min(ws) + 1, Len(s)))

\* str.split(char::is_whitespace): every fragment between two separators,
\* the empty ones included
RECURSIVE SplitWhitespace(_)
SplitWhitespace(s) ==
  LET ws == { p \in 1..Len(s) : s[p] \in Whitespace }
  IN IF ws = {} THEN << s >>
     ELSE << SubSeq(s, 1, Min(ws) - 1) >>
            \o SplitWhitespace(SubSeq(s, Min(ws) + 1, Len(s)))

\* InsertAt one place too early
InsertAt_Before(v, index, element) ==
  IF index = 0 THEN << element >> \o v
  ELSE SubSeq(v, 1, index - 1) \o << element >> \o SubSeq(v, index, Len(v))

\* InsertAt writing over the element at index instead of shifting it
InsertAt_Overwrite(v, index, element) ==
  IF index < Len(v) THEN [v EXCEPT ![index + 1] = element] ELSE Append(v, element)

\* Vec::insert(index, element), 0-based index
InsertAt(v, index, element) ==
  SubSeq(v, 1, index) \o << element >> \o SubSeq(v, index + 1, Len(v))

\* Vec::get_mut(index) followed by *elem = element
SetAt(v, index, element) ==
  IF index < Len(v) THEN [v EXCEPT ![index + 1] = element] ELSE v

----------------------------------------------------------------------------
\* Regular expressions.  A position p in 1..Len(s)+1 stands for "the next
\* unread character is s[p]"; each combinator maps the set of positions a
\* prefix of the pattern can stop at to the set after one more element.

\* C+
ClassPlus(s, C, P) ==
  { q \in 2..(Len(s) + 1) : \E p \in P : p < q /\ \A k \in p..(q - 1) : s[k] \in C }

\* C*
ClassStar(s, C, P) == P \cup ClassPlus(s, C, P)

\* a literal character
Lit(s, c, P) == { p + 1 : p \in { r \in P : r <= Len(s) /\ s[r] = c } }

\* c?
Opt(s, c, P) == P \cup Lit(s, c, P)

\* a literal string
LitStr(s, str, P) ==
  { p + Len(str) :
      p \in { r \in P : r + Len(str) - 1 <= Len(s)
                         /\ SubSeq(s, r, r + Len(str) - 1) = str } }

\* $ after a pattern anchored with ^
AtEnd(s, P) == (Len(s) + 1) \in P

\* (C+ c)+
RECURSIVE GroupPlus(_, _, _, _)
GroupPlus(s, C, c, P) ==
  LET Q == Lit(s, c, ClassPlus(s, C, P))
  IN IF Q = {} THEN {} ELSE Q \cup GroupPlus(s, C, c, Q)

\* PUNCTUATION matching the last character only, not the whole run
PUNCTUATION_LastChar(token) ==
  IF Len(token) > 0 /\ token[Len(token)] \in Marks
  THEN Some([start |-> Len(token) - 1, end |-> Len(token)])
  ELSE None

\* r"([\.\?\-:!,;]+)$" with Regex::find: the leftmost match, as byte offsets
PUNCTUATION(token) ==
  LET starts == { p \in 1..Len(token) : \A k \in p..Len(token) : token[k] \in Marks }
  IN IF starts = {} THEN None
     ELSE Some([start |-> Min(starts) - 1, end |-> Len(token)])

\* r"^\d+\.\d+$"
REALS(v) == AtEnd(v, ClassPlus(v, Digit, Lit(v, ".", ClassPlus(v, Digit, {1}))))

\* r"^\d+$"
INTEGERS(v) == AtEnd(v, ClassPlus(v, Digit, {1}))

\* r"^(\d+,)+\d+\.\d+$"
COMMA_FORMATTED_REALS(v) ==
  AtEnd(v, ClassPlus(v, Digit, Lit(v, ".",
             ClassPlus(v, Digit, GroupPlus(v, Digit, ",", {1})))))

\* r"^(\d+,)+\d+$"
COMMA_FORMATTED_INTEGERS(v) ==
  AtEnd(v, ClassPlus(v, Digit, GroupPlus(v, Digit, ",", {1})))

\* r"^\w+$"
WORD(v) == AtEnd(v, ClassPlus(v, WordChar, {1}))

\* r"^([A-Za-z]+\-)+[A-Za-z]+$"
HYPHENATED_WORD(v) ==
  AtEnd(v, ClassPlus(v, Letter, GroupPlus(v, Letter, "-", {1})))

\* r"^http(s)?://(\w+\.)+(\w+)/?([\w/#\?&=\.])*$"
URL(v) ==
  AtEnd(v, ClassStar(v, UrlTail,
             Opt(v, "/",
               ClassPlus(v, WordChar,
                 GroupPlus(v, WordChar, ".",
                   LitStr(v, <<":", "/", "/">>,
                     Opt(v, "s",
                       LitStr(v, <<"h", "t", "t", "p">>, {1}))))))))

\* r"^@\w+$"
USERNAME(v) == AtEnd(v, ClassPlus(v, WordChar, Lit(v, "@", {1})))

\* r"^#\w+$"
HASHTAG(v) == AtEnd(v, ClassPlus(v, WordChar, Lit(v, "#", {1})))

----------------------------------------------------------------------------
\* tokenize, lines 112-118: one Unknown per fragment that is not blank

RECURSIVE PushFragments(_, _)
PushFragments(split, tokens0) ==
  IF split = <<>> THEN tokens0
  ELSE LET s == Head(split)
           trim == Trim(s)
       IN IF Len(trim) = 0
          THEN PushFragments(Tail(split), tokens0)
          ELSE PushFragments(Tail(split), Append(tokens0, Unknown(s)))

----------------------------------------------------------------------------
\* separate_end_punctuation

\* MatchPunctuation with the arms of ":" and ";" exchanged
MatchPunctuation_Swapped(str) ==
  CASE str = <<"!">> -> Some("Exclamation")
    [] str = <<",">> -> Some("Comma")
    [] str = <<"-">> -> Some("Dash")
    [] str = <<".">> -> Some("Period")
    [] str = <<":">> -> Some("Semicolon")
    [] str = <<";">> -> Some("Colon")
    [] str = <<"?">> -> Some("Question")
    [] OTHER -> None

\* MatchPunctuation taking a run of several marks for a full stop
MatchPunctuation_RunIsPeriod(str) ==
  CASE str = <<"!">> -> Some("Exclamation")
    [] str = <<",">> -> Some("Comma")
    [] str = <<"-">> -> Some("Dash")
    [] str = <<".">> -> Some("Period")
    [] str = <<":">> -> Some("Colon")
    [] str = <<";">> -> Some("Semicolon")
    [] str = <<"?">> -> Some("Question")
    [] OTHER -> Some("Period")

\* match mat.as_str() { ... }, lines 149-161; None is the `_` arm
MatchPunctuation(str) ==
  CASE str = <<"!">> -> Some("Exclamation")
    [] str = <<",">> -> Some("Comma")
    [] str = <<"-">> -> Some("Dash")
    [] str = <<".">> -> Some("Period")
    [] str = <<":">> -> Some("Colon")
    [] str = <<";">> -> Some("Semicolon")
    [] str = <<"?">> -> Some("Question")
    [] OTHER -> None

\* WriteSplit without the i += 1 that follows the write of before
WriteSplit_NoAdvance(v, idx, before, punctuation, after) ==
  LET s1 == IF before.some
            THEN [tokens |-> SetAt(v, idx, Unknown(before.val)),
                  i |-> idx, insert |-> TRUE]
            ELSE [tokens |-> v, i |-> idx, insert |-> FALSE]
      s2 == IF s1.insert
            THEN [tokens |-> InsertAt(s1.tokens, s1.i, PunctuationToken(punctuation)),
                  i |-> s1.i + 1]
            ELSE [tokens |-> SetAt(s1.tokens, s1.i, PunctuationToken(punctuation)),
                  i |-> s1.i + 1]
  IN IF after.some
     THEN [tokens |-> InsertAt(s2.tokens, s2.i, Unknown(after.val)), i |-> s2.i + 1]
     ELSE [tokens |-> s2.tokens, i |-> s2.i]

\* lines 177-202: write before, the mark and after; the result is the
\* vector and the cursor
WriteSplit(v, idx, before, punctuation, after) ==
  LET s1 == IF before.some
            THEN [tokens |-> SetAt(v, idx, Unknown(before.val)),
                  i |-> idx + 1, insert |-> TRUE]
            ELSE [tokens |-> v, i |-> idx, insert |-> FALSE]
      s2 == IF s1.insert
            THEN [tokens |-> InsertAt(s1.tokens, s1.i, PunctuationToken(punctuation)),
                  i |-> s1.i + 1]
            ELSE [tokens |-> SetAt(s1.tokens, s1.i, PunctuationToken(punctuation)),
                  i |-> s1.i + 1]
  IN IF after.some
     THEN [tokens |-> InsertAt(s2.tokens, s2.i, Unknown(after.val)), i |-> s2.i + 1]
     ELSE [tokens |-> s2.tokens, i |-> s2.i]

\* one iteration of the while loop, lines 137-203
SeparateIteration(v, idx) ==
  LET skip == [tokens |-> v, i |-> idx + 1]
      cur == v[idx + 1]
  IN IF cur.kind # "Unknown" THEN skip
     ELSE LET token == cur.text
              mat == PUNCTUATION(token)
          IN IF ~mat.some THEN skip
             ELSE LET punctuation ==
                        MatchPunctuation(SubSeq(token, mat.val.start + 1, mat.val.end))
                      before == FilterNonEmpty(StrGet(token, 0, mat.val.start))
                      after == FilterNonEmpty(StrGet(token, mat.val.end, Len(token)))
                  IN IF ~punctuation.some THEN skip
                     ELSE WriteSplit(v, idx, before, punctuation.val, after)

\* the whole pass, as a function of the vector
RECURSIVE SeparateFrom(_, _)
SeparateFrom(v, idx) ==
  IF idx < Len(v)
  THEN LET r == SeparateIteration(v, idx) IN SeparateFrom(r.tokens, r.i)
  ELSE v

separate_end_punctuation(v) == SeparateFrom(v, 0)

----------------------------------------------------------------------------
\* parse_integers_and_reals and parse_words_etc

\* NumberToken without the arm of INTEGERS
NumberToken_NoInteger(token) ==
  IF token.kind = "Unknown"
  THEN IF REALS(token.text) THEN TextToken("RealNumber", token.text)
       ELSE IF COMMA_FORMATTED_REALS(token.text)
            THEN TextToken("CommaFormattedRealNumber", token.text)
       ELSE IF COMMA_FORMATTED_INTEGERS(token.text)
            THEN TextToken("CommaFormattedInteger", token.text)
       ELSE token
  ELSE token

\* the match of lines 216-232 on one token
NumberToken(token) ==
  IF token.kind = "Unknown"
  THEN IF REALS(token.text) THEN TextToken("RealNumber", token.text)
       ELSE IF INTEGERS(token.text) THEN TextToken("Integer", token.text)
       ELSE IF COMMA_FORMATTED_REALS(token.text)
            THEN TextToken("CommaFormattedRealNumber", token.text)
       ELSE IF COMMA_FORMATTED_INTEGERS(token.text)
            THEN TextToken("CommaFormattedInteger", token.text)
       ELSE token
  ELSE token

\* WordToken matching every token that carries text, not the Unknown alone
WordToken_AnyText(token) ==
  IF token.kind # "Punctuation"
  THEN IF URL(token.text) THEN TextToken("Url", token.text)
       ELSE IF HASHTAG(token.text) THEN TextToken("Hashtag", token.text)
       ELSE IF USERNAME(token.text) THEN TextToken("UsernameMention", token.text)
       ELSE IF WORD(token.text) THEN TextToken("Word", token.text)
       ELSE IF HYPHENATED_WORD(token.text) THEN TextToken("HyphenatedWord", token.text)
       ELSE token
  ELSE token

\* the match of lines 247-266 on one token
WordToken(token) ==
  IF token.kind = "Unknown"
  THEN IF URL(token.text) THEN TextToken("Url", token.text)
       ELSE IF HASHTAG(token.text) THEN TextToken("Hashtag", token.text)
       ELSE IF USERNAME(token.text) THEN TextToken("UsernameMention", token.text)
       ELSE IF WORD(token.text) THEN TextToken("Word", token.text)
       ELSE IF HYPHENATED_WORD(token.text) THEN TextToken("HyphenatedWord", token.text)
       ELSE token
  ELSE token

RECURSIVE parse_integers_and_reals(_)
parse_integers_and_reals(v) ==
  IF v = <<>> THEN <<>>
  ELSE << NumberToken(Head(v)) >> \o parse_integers_and_reals(Tail(v))

RECURSIVE parse_words_etc(_)
parse_words_etc(v) ==
  IF v = <<>> THEN <<>>
  ELSE << WordToken(Head(v)) >> \o parse_words_etc(Tail(v))

----------------------------------------------------------------------------
\* The pipeline of tokenize as a state machine.

VARIABLES sequence, tokens, i, pc

vars == << sequence, tokens, i, pc >>

Init ==
  /\ sequence \in Inputs
  /\ tokens = <<>>
  /\ i = 0
  /\ pc = "split"

\* lines 109-118, up to the entry of separate_end_punctuation (let mut i = 0)
Split ==
  /\ pc = "split"
  /\ tokens' = PushFragments(SplitWhitespace(sequence), <<>>)
  /\ i' = 0
  /\ pc' = "separate"
  /\ UNCHANGED sequence

\* one iteration of the loop of separate_end_punctuation
Separate ==
  /\ pc = "separate"
  /\ i < Len(tokens)
  /\ LET r == SeparateIteration(tokens, i)
     IN /\ tokens' = r.tokens
        /\ i' = r.i
  /\ UNCHANGED << sequence, pc >>

\* the loop ends; line 122
ParseIntegersAndReals ==
  /\ pc = "separate"
  /\ ~(i < Len(tokens))
  /\ tokens' = parse_integers_and_reals(tokens)
  /\ pc' = "words"
  /\ UNCHANGED << sequence, i >>

\* line 123, and the return of tokens
ParseWordsEtc ==
  /\ pc = "words"
  /\ tokens' = parse_words_etc(tokens)
  /\ pc' = "done"
  /\ UNCHANGED << sequence, i >>

Next == Split \/ Separate \/ ParseIntegersAndReals \/ ParseWordsEtc

Spec == Init /\ [][Next]_vars

\* The inputs of the termination property: runs of marks, text and blanks,
\* alone or after a fragment that is split.
LoopAlphabet == {"a", ".", "!", ",", " "}

LoopOpenings == { <<>>, <<"1", ",">> }

LoopInputs ==
  { o \o b : o \in LoopOpenings, b \in UNION { [1..n -> LoopAlphabet] : n \in 0..MaxLen } }

LoopInit ==
  /\ sequence \in LoopInputs
  /\ tokens = <<>>
  /\ i = 0
  /\ pc = "split"

\* tokenize is a straight-line call: every step that can run does
LoopSpec == LoopInit /\ [][Next]_vars /\ WF_vars(Next)

----------------------------------------------------------------------------
\* Vocabulary of the properties.

\* the literal character of a mark, from the documentation of enum Punctuation
MarkChar(mark) ==
  CASE mark = "Colon" -> ":"
    [] mark = "Comma" -> ","
    [] mark = "Dash" -> "-"
    [] mark = "Exclamation" -> "!"
    [] mark = "Period" -> "."
    [] mark = "Question" -> "?"
    [] mark = "Semicolon" -> ";"

PunctuationVariants ==
  {"Colon", "Comma", "Dash", "Exclamation", "Period", "Question", "Semicolon"}

\* length of the trailing run of marks of a text
TrailingRun(text) ==
  Cardinality({ p \in 1..Len(text) : \A k \in p..Len(text) : text[k] \in Marks })

IsText(token) == token.kind # "Punctuation"

\* the source substring of a token
TokenSource(token) ==
  IF token.kind = "Punctuation" THEN << MarkChar(token.mark) >> ELSE token.text

RECURSIVE Concat(_)
Concat(v) == IF v = <<>> THEN <<>> ELSE TokenSource(Head(v)) \o Concat(Tail(v))

RECURSIVE StripWhitespace(_)
StripWhitespace(s) ==
  IF s = <<>> THEN <<>>
  ELSE IF Head(s) \in Whitespace THEN StripWhitespace(Tail(s))
       ELSE << Head(s) >> \o StripWhitespace(Tail(s))

\* the maximal runs of non-whitespace characters of a string, left to right
RunStarts(s) ==
  { p \in 1..Len(s) : s[p] \notin Whitespace /\ (p = 1 \/ s[p - 1] \in Whitespace) }

RunEnd(s, p) ==
  CHOOSE q \in p..Len(s) :
    /\ \A k \in p..q : s[k] \notin Whitespace
    /\ (q = Len(s) \/ s[q + 1] \in Whitespace)

NthRunStart(s, n) ==
  CHOOSE p \in RunStarts(s) : Cardinality({ r \in RunStarts(s) : r <= p }) = n

NumFragments(s) == Cardinality(RunStarts(s))

Fragment(s, n) == SubSeq(s, NthRunStart(s, n), RunEnd(s, NthRunStart(s, n)))

\* the first pattern a text matches, in the order of the two classifiers
FirstMatch(text) ==
  IF REALS(text) THEN "RealNumber"
  ELSE IF INTEGERS(text) THEN "Integer"
  ELSE IF COMMA_FORMATTED_REALS(text) THEN "CommaFormattedRealNumber"
  ELSE IF COMMA_FORMATTED_INTEGERS(text) THEN "CommaFormattedInteger"
  ELSE IF URL(text) THEN "Url"
  ELSE IF HASHTAG(text) THEN "Hashtag"
  ELSE IF USERNAME(text) THEN "UsernameMention"
  ELSE IF WORD(text) THEN "Word"
  ELSE IF HYPHENATED_WORD(text) THEN "HyphenatedWord"
  ELSE "Unknown"

\* the steps, told apart by the program counter
IsSeparateStep == pc = "separate" /\ pc' = "separate"

IsNumberStep == pc = "separate" /\ pc' = "words"

IsWordStep == pc = "words" /\ pc' = "done"

SeparateDone == pc = "separate" /\ ~(i < Len(tokens))

\* the token under the cursor is an Unknown whose trailing run has length n
CursorRun(n) ==
  /\ tokens[i + 1].kind = "Unknown"
  /\ TrailingRun(tokens[i + 1].text) = n

\* the token under the cursor is an Unknown that ends in several marks
CursorLongRun ==
  /\ tokens[i + 1].kind = "Unknown"
  /\ TrailingRun(tokens[i + 1].text) > 1

----------------------------------------------------------------------------
\* C1: an iteration of separate_end_punctuation on an Unknown whose trailing
\* run of marks has length exactly one replaces it, in its position, by
\* Unknown(before) followed by Punctuation(mark) when the text before the
\* mark is not empty, and by the single Punctuation(mark) when the text is
\* only the mark; mark is the variant of that character and nothing else is
\* inserted.
C1_SingleMarkSplit ==
  [][ (IsSeparateStep /\ CursorRun(1)) =>
        LET text == tokens[i + 1].text
            n == Len(text)
            mark == CHOOSE m \in PunctuationVariants : MarkChar(m) = text[n]
            rest == SubSeq(tokens, i + 2, Len(tokens))
        IN IF n > 1
           THEN /\ tokens' = SubSeq(tokens, 1, i)
                               \o << Unknown(SubSeq(text, 1, n - 1)),
                                     PunctuationToken(mark) >>
                               \o rest
                /\ i' = i + 2
           ELSE /\ tokens' = SubSeq(tokens, 1, i) \o << PunctuationToken(mark) >> \o rest
                /\ Len(tokens') = Len(tokens)
                /\ i' = i + 1 ]_vars

\* both shapes have been written: "a. ." gives Unknown, Period, Period
C1_Witness ==
  /\ pc = "separate"
  /\ i = 3
  /\ Len(tokens) = 3
  /\ NumFragments(sequence) = 2
  /\ tokens[1].kind = "Unknown"
  /\ tokens[2].kind = "Punctuation"
  /\ tokens[3].kind = "Punctuation"

\* C2: tokenize terminates, and every iteration of the loop of
\* separate_end_punctuation lowers tokens.len() - i by exactly one, leaves
\* exactly the not yet examined tokens after the cursor, and so runs at most
\* once per fragment.
C2_CursorAdvances ==
  /\ <>(pc = "done")
  /\ [](pc = "separate" =>
          /\ i <= Len(tokens)
          /\ Len(tokens) - i <= NumFragments(sequence))
  /\ [][ IsSeparateStep =>
           /\ Len(tokens') - i' = Len(tokens) - i - 1
           /\ SubSeq(tokens', i' + 1, Len(tokens'))
                = SubSeq(tokens, i + 2, Len(tokens)) ]_vars

\* a token was inserted, a run of several marks was met, and the call ended:
\* "1, .." gives Integer, Comma, Unknown("..")
C2_Witness ==
  /\ pc = "done"
  /\ \E k \in 1..Len(tokens) : IsText(tokens[k]) /\ TrailingRun(tokens[k].text) >= 2
  /\ Len(tokens) > NumFragments(sequence)

\* C3: after the splitter and after every step of every pass, the source
\* substrings of the tokens, concatenated left to right, are the input
\* without its whitespace.
C3_ConcatIsInput ==
  pc # "split" => Concat(tokens) = StripWhitespace(sequence)

C3_Witness ==
  /\ pc = "done"
  /\ Len(tokens) >= 3
  /\ \E p \in 1..Len(sequence) : sequence[p] \in Whitespace
  /\ \E k \in 1..Len(tokens) : tokens[k].kind = "Punctuation"
  /\ \E k \in 1..Len(tokens) : tokens[k].kind = "Unknown"

\* C4: the splitter emits exactly one Unknown per maximal run of
\* non-whitespace characters, in order, and tokenize returns the empty
\* sequence for an input that is empty or all whitespace.
C4_OneTokenPerRun ==
  /\ (pc = "separate" /\ i = 0) =>
       /\ Len(tokens) = NumFragments(sequence)
       /\ \A k \in 1..Len(tokens) : tokens[k] = Unknown(Fragment(sequence, k))
  /\ (pc = "done" /\ \A p \in 1..Len(sequence) : sequence[p] \in Whitespace) =>
       tokens = <<>>

\* a mix of whitespace characters came back empty
C4_Witness ==
  /\ pc = "done"
  /\ tokens = <<>>
  /\ \E p, q \in 1..Len(sequence) : sequence[p] = " " /\ sequence[q] = "\t"

\* C5: a token that is Unknown after the punctuation pass ends with the
\* variant of the first pattern its text matches, in the order RealNumber,
\* Integer, CommaFormattedRealNumber, CommaFormattedInteger, Url, Hashtag,
\* UsernameMention, Word, HyphenatedWord, Unknown if none, with its text
\* unchanged; a text of digits only is an Integer, never a Word.
C5_FirstMatchWins ==
  /\ [][ (IsNumberStep \/ IsWordStep) =>
           /\ Len(tokens') = Len(tokens)
           /\ \A k \in 1..Len(tokens) :
                IF IsText(tokens[k])
                THEN IsText(tokens'[k]) /\ tokens'[k].text = tokens[k].text
                ELSE tokens'[k] = tokens[k] ]_vars
  /\ [](pc = "done" =>
          \A k \in 1..Len(tokens) :
            IsText(tokens[k]) =>
              /\ tokens[k].kind = FirstMatch(tokens[k].text)
              /\ INTEGERS(tokens[k].text) => tokens[k].kind = "Integer")

\* digits came out as Integer beside a token of the lexical pass
C5_Witness ==
  /\ pc = "done"
  /\ \E k \in 1..Len(tokens) : tokens[k].kind = "Integer"
  /\ \E k \in 1..Len(tokens) : tokens[k].kind \in {"Word", "HyphenatedWord", "Url"}

\* C6 as stated: a fragment whose trailing run of marks is longer than one
\* character is left untouched by the punctuation pass and is returned as
\* the one token Unknown(fragment).
C6_Original ==
  pc = "done" =>
    \A k \in 1..Len(tokens) :
      (IsText(tokens[k]) /\ TrailingRun(tokens[k].text) > 1) =>
        tokens[k].kind = "Unknown"

\* C6, amended: such a fragment is left untouched by the punctuation pass
\* and is returned as exactly one token holding the whole fragment, which
\* is Url(fragment) when the fragment matches the URL pattern (its tail
\* class admits '.' and '?') and Unknown(fragment) otherwise.
C6_RunLeftWhole ==
  /\ [][ (IsSeparateStep /\ CursorLongRun) =>
           tokens' = tokens /\ i' = i + 1 ]_vars
  /\ [](pc = "done" =>
          /\ \A k \in 1..Len(tokens) :
               (IsText(tokens[k]) /\ TrailingRun(tokens[k].text) > 1) =>
                 tokens[k].kind = IF URL(tokens[k].text) THEN "Url" ELSE "Unknown"
          /\ \A n \in 1..NumFragments(sequence) :
               TrailingRun(Fragment(sequence, n)) > 1 =>
                 \E k \in 1..Len(tokens) :
                   /\ IsText(tokens[k])
                   /\ tokens[k].text = Fragment(sequence, n)
                   /\ (NumFragments(sequence) = 1 => Len(tokens) = 1))

\* a URL ending in two marks came back whole, as a Url
C6_Witness ==
  /\ pc = "done"
  /\ \E k \in 1..Len(tokens) :
       tokens[k].kind = "Url" /\ TrailingRun(tokens[k].text) > 1

\* C7: a token that holds a variant other than Unknown is never changed by a
\* later step of any pass: it keeps its variant and payload, at its own
\* position or, behind an insertion of the punctuation pass, shifted by it.
C7_Monotonic ==
  [][ \A k \in 1..Len(tokens) :
        tokens[k].kind # "Unknown" =>
          LET moved == IF IsSeparateStep /\ k > i + 1
                       THEN k + Len(tokens') - Len(tokens)
                       ELSE k
          IN moved \in 1..Len(tokens') /\ tokens'[moved] = tokens[k] ]_vars

\* a mark, a number and a lexical token went through all the passes
C7_Witness ==
  /\ pc = "done"
  /\ \E k \in 1..Len(tokens) : tokens[k].kind = "Punctuation"
  /\ \E k \in 1..Len(tokens) :
       tokens[k].kind \in {"Integer", "RealNumber", "CommaFormattedInteger"}
  /\ \E k \in 1..Len(tokens) : tokens[k].kind \in {"Word", "Hashtag", "UsernameMention"}

\* C8: at every point of the pipeline no token that carries text holds the
\* empty string.
C8_NoEmptyText ==
  \A k \in 1..Len(tokens) : IsText(tokens[k]) => Len(tokens[k].text) > 0

\* a fragment that is only a mark (empty before) was rewritten, next to a
\* blank fragment between two separators
C8_Witness ==
  /\ pc = "done"
  /\ Len(tokens) >= 1
  /\ tokens[1].kind = "Punctuation"
  /\ \E p \in 1..(Len(sequence) - 1) :
       sequence[p] \in Whitespace /\ sequence[p + 1] \in Whitespace

\* C9: no step shrinks the sequence; an iteration of the punctuation pass
\* grows it by exactly one when it splits off a non-empty before and by zero
\* otherwise, the classification passes keep its length, and an input of n
\* fragments ends with at least n and at most 2n tokens.
C9_LengthGrows ==
  /\ [][ /\ Len(tokens') >= Len(tokens)
         /\ IsSeparateStep =>
              Len(tokens') - Len(tokens)
                = IF CursorRun(1) /\ Len(tokens[i + 1].text) > 1 THEN 1 ELSE 0
         /\ (IsNumberStep \/ IsWordStep) => Len(tokens') = Len(tokens) ]_vars
  /\ [](pc # "split" =>
          /\ NumFragments(sequence) <= Len(tokens)
          /\ Len(tokens) <= 2 * NumFragments(sequence))

\* two fragments, both split: the upper bound 2n is met
C9_Witness ==
  /\ pc = "done"
  /\ NumFragments(sequence) = 2
  /\ Len(tokens) = 4

\* C10: every Unknown(before) the punctuation pass writes ends in a character
\* that is no mark; when the pass is over no Unknown has a trailing run of
\* exactly one mark, and the pass applied to its own output changes nothing.
C10_Idempotent ==
  /\ [][ (IsSeparateStep /\ Len(tokens') > Len(tokens)) =>
           /\ tokens'[i + 1].kind = "Unknown"
           /\ TrailingRun(tokens'[i + 1].text) = 0 ]_vars
  /\ [](SeparateDone =>
          /\ \A k \in 1..Len(tokens) :
               tokens[k].kind = "Unknown" => TrailingRun(tokens[k].text) # 1
          /\ separate_end_punctuation(tokens) = tokens)

\* the pass is over, having split a fragment and skipped a run of marks
C10_Witness ==
  /\ SeparateDone
  /\ Len(tokens) > NumFragments(sequence)
  /\ \E k \in 1..Len(tokens) :
       tokens[k].kind = "Unknown" /\ TrailingRun(tokens[k].text) > 1

====
